---- MODULE Spec2Model ----
(***************************************************************************)
(* CHAT: a Streamlit chat application over a hosted LLM endpoint.          *)
(*                                                                         *)
(* The model holds the three SQLite tables of chat/db/models.py (users,    *)
(* conversations, messages), the per-browser-session Streamlit state       *)
(* (st.session_state, st.query_params) and the position of each session's  *)
(* script run.  Every database call of the code is its own transaction     *)
(* (models.get_connection commits on exit), so each call that touches the  *)
(* database is one atomic step and the script runs of different sessions   *)
(* interleave between them.                                                *)
(*                                                                         *)
(* Columns no modelled operation reads (users.created_at, every            *)
(* conversation's created_at / updated_at) are left out of the rows.       *)
(* show_sidebar lists saved_convs[:10]; MaxRows stays below 10, so the     *)
(* slice never drops a row.                                                *)
(*                                                                         *)
(* Spec is two browser sessions using the pages; SpecAuth is one session   *)
(* over time (tokens expire, the page is reloaded); SpecFiles is one       *)
(* session that attaches files to its prompts. SpecAccounts, SpecUpload,   *)
(* SpecStream and SpecStore call JWTAuthProvider, the file handler,        *)
(* stream_message and the messages table directly, each call leaving its   *)
(* arguments and its result in the variable call.                          *)
(***************************************************************************)
EXTENDS Integers, Sequences, FiniteSets, TLC

\* ------------------------------------------------------------------ bounds
\* rows ever inserted into the conversations and messages tables (a send
\* inserts two messages)
MaxRows == 4
\* token lifetimes the wall clock moves forward, one at a time
MaxDays == 1
\* files attached to one prompt
MaxFiles == 2
\* messages a session displays when a send fails before it has stored one
MaxShown == 1
\* usage reports added to one user's totals by direct calls
MaxUsage == 1
\* events in one response stream handed to stream_message directly
MaxEvents == 3

\* ------------------------------------------------------- program constants
JWT_EXPIRATION_HOURS == 24
SECONDS_PER_HOUR == 3600
TITLE_PREFIX_LEN == 50
MAX_FILE_SIZE_MB == 25
DOCUMENT_NAME_LEN == 100
MIN_USERNAME_LEN == 3
MIN_PASSWORD_LEN == 8

\* browser sessions: two tabs. The first does everything the pages offer; the
\* second logs in to an existing account and works on the conversations it
\* finds (loads, deletes, sends).
Sessions == {"s1", "s2"}
Primary == {"s1"}

\* Python None for an id-valued slot. Row ids are uuid4 strings; the model
\* names the n-th id allocated in a table n, so ids are 1, 2, ... and, in the
\* messages table, m1 < m2 says that m1 was inserted before m2.
NoId == 0
\* Python None for an optional int parameter / an optional str parameter
NoInt == -1
NoStr == "<None>"
\* no token held (key absent from session_state / query_params)
NoToken == [user_id |-> NoId, exp |-> 0, signed |-> FALSE]

VARIABLES
    users,          \* table users: id -> row
    conversations,  \* table conversations: id -> row
    messages,       \* table messages: id -> row
    nextConv,       \* conversation ids allocated so far
    nextMsg,        \* message ids allocated so far
    clock,          \* the wall clock: [sec, usec]
    ss,             \* st.session_state of each session
    qp,             \* st.query_params["token"] of each session
    pc,             \* where each session's script run stands
    page,           \* what the session's last run of main rendered
    lv,             \* local variables of show_chat_page during a send
    call            \* the last direct call of a library function: arguments, result

vars == <<users, conversations, messages, nextConv, nextMsg, clock, ss, qp, pc, page, lv,
          call>>
dbvars == <<users, conversations, messages, nextConv, nextMsg>>

\* ------------------------------------------------------------------ inputs
\* what is typed into the registration form (username, email, password)
RegForms ==
    { [username |-> "amy", email |-> "amy@x.org", password |-> "password1"] }

LoginForms ==
    { [username |-> "amy", password |-> "password1"],
      [username |-> "amy", password |-> "wrongpass"] }

\* what callers hand to JWTAuthProvider.register and .authenticate: names and
\* addresses in several letter cases, too short and empty values, an address
\* without "@"
AccountNames == { "amy", "AMY", "Bob", "al", "" }
AccountEmails == { "amy@x.org", "Amy@X.org", "bob@x.org", "bob.x.org", "" }
AccountPasswords == { "password1", "secret", "" }
AccountForm(username, email, password) ==
    [ username |-> username, email |-> email, password |-> password ]
AccountForms ==
    { AccountForm("amy", "amy@x.org", "password1"),
      AccountForm("AMY", "Amy@X.org", "password1"),
      AccountForm("AMY", "bob@x.org", "password1"),
      AccountForm("Bob", "Amy@X.org", "password1"),
      AccountForm("Bob", "bob@x.org", "password1"),
      AccountForm("Bob", "bob@x.org", "secret"),
      AccountForm("Bob", "bob@x.org", ""),
      AccountForm("Bob", "bob.x.org", "password1"),
      AccountForm("Bob", "", "password1"),
      AccountForm("al", "bob@x.org", "password1"),
      AccountForm("", "bob@x.org", "password1"),
      AccountForm("al", "bob.x.org", "secret"),
      AccountForm("Bob", "bob.x.org", "secret"),
      AccountForm("amy", "amy@x.org", "secret") }

\* a token pasted into the URL that the server's key did not sign
UrlTokens == { [user_id |-> 1, exp |-> 10 * JWT_EXPIRATION_HOURS * SECONDS_PER_HOUR,
                signed |-> FALSE] }

Prompts == {"hi"}
\* the title typed into the Rename box: the default title, which lets the
\* auto-title condition of a later send hold again
RenameTitles == {"New Chat"}

\* what the file-upload bridge delivers: the name of the chosen file and its
\* bytes, base64-encoded. The bytes are named by their length, the text they
\* decode to and whether python-docx can open them. The page's script turns
\* away a file over the size limit before it is sent, and its file dialog
\* suggests the allowed extensions; the server does not rely on either.
BridgeFile(name, size) ==
    [ name |-> name,
      data |-> [ b64 |-> [ size |-> size,
                           body |-> IF size = 0 THEN "" ELSE "note",
                           docx |-> name = "d.docx" ] ] ]

UploadNames == { "a.PNG", "scan one.pdf", "n.txt", "d.docx", "x.exe", "README", ".png" }
UploadSizes == { 0, MAX_FILE_SIZE_MB * 1024 * 1024, MAX_FILE_SIZE_MB * 1024 * 1024 + 1 }
UploadFiles == { BridgeFile(name, size) : name \in UploadNames, size \in UploadSizes }

\* the files attached to prompts: an image, a PDF of exactly the allowed
\* size, a text file, and a program
Attachments ==
    { BridgeFile("a.PNG", MAX_FILE_SIZE_MB * 1024 * 1024),
      BridgeFile("scan one.pdf", MAX_FILE_SIZE_MB * 1024 * 1024),
      BridgeFile("n.txt", MAX_FILE_SIZE_MB * 1024 * 1024),
      BridgeFile("x.exe", MAX_FILE_SIZE_MB * 1024 * 1024) }

\* str.lower(), character by character (the inputs are ASCII)
ASCII_UPPERCASE == "ABCDEFGHIJKLMNOPQRSTUVWXYZ"
ASCII_LOWERCASE == "abcdefghijklmnopqrstuvwxyz"

LowerChar(c) ==
    IF \E i \in 1..Len(ASCII_UPPERCASE) : SubSeq(ASCII_UPPERCASE, i, i) = c
    THEN LET i == CHOOSE k \in 1..Len(ASCII_UPPERCASE) : SubSeq(ASCII_UPPERCASE, k, k) = c
         IN SubSeq(ASCII_LOWERCASE, i, i)
    ELSE c

RECURSIVE LowerOf(_)
LowerOf(str) ==
    IF str = "" THEN ""
    ELSE LowerChar(SubSeq(str, 1, 1)) \o LowerOf(SubSeq(str, 2, Len(str)))

\* Path(filename).suffix of a bare file name: from the last dot on, unless
\* the name has no dot, starts with its only dot or ends with a dot
Suffix(filename) ==
    LET dots == { i \in 1..Len(filename) : SubSeq(filename, i, i) = "." }
        last == CHOOSE i \in dots : \A j \in dots : j <= i
    IN IF dots = {} \/ last = 1 \/ last = Len(filename)
       THEN ""
       ELSE SubSeq(filename, last, Len(filename))

\* the user names and email addresses the forms contain and the extensions
\* of the files uploaded, lower-cased once
LoweredInputs ==
    [ str \in { f.username : f \in RegForms \cup LoginForms }
                \cup { f.email : f \in RegForms }
                \cup AccountNames \cup AccountEmails
                \cup { Suffix(f.name) : f \in UploadFiles \cup Attachments }
        |-> LowerOf(str) ]

Lower(str) == IF str \in DOMAIN LoweredInputs THEN LoweredInputs[str] ELSE LowerOf(str)

\* "c in str" for a one-character c
Contains(str, c) == \E i \in 1..Len(str) : SubSeq(str, i, i) = c

\* ------------------------------------------------------------ users table
\* hash_password / verify_password: the salted PBKDF2 hash of a password
\* verifies exactly the password it was derived from
hash_password(password) == [pbkdf2_of |-> password]
verify_password(password, password_hash) == password_hash.pbkdf2_of = password

\* the UNIQUE constraints of the users table (username, email)
UniqueViolation(us, username, email) ==
    \E u \in DOMAIN us : us[u].username = username \/ us[u].email = email

\* create_user: the row inserted (lower-cased username and email)
NewUserRow(username, email, password) ==
    [ username |-> Lower(username),
      email |-> Lower(email),
      password_hash |-> hash_password(password),
      total_input_tokens |-> 0,
      total_output_tokens |-> 0 ]

\* a create_user whose uniqueness check sees the name and the address as
\* they were typed
create_user_result_as_typed(us, username, email, password) ==
    IF UniqueViolation(us, username, email)
    THEN NoId
    ELSE Cardinality(DOMAIN us) + 1

\* create_user: the id of the created user, NoId on sqlite3.IntegrityError
create_user_result(us, username, email, password) ==
    IF UniqueViolation(us, Lower(username), Lower(email))
    THEN NoId
    ELSE Cardinality(DOMAIN us) + 1

\* create_user: the users table afterwards
create_user(us, username, email, password) ==
    IF create_user_result(us, username, email, password) = NoId
    THEN us
    ELSE us @@ (create_user_result(us, username, email, password)
                    :> NewUserRow(username, email, password))

get_user_by_id(us, user_id) ==
    IF user_id \in DOMAIN us THEN user_id ELSE NoId

\* a get_user_by_username that looks the name up as it was typed
get_user_by_username_exact(us, username) ==
    IF \E u \in DOMAIN us : us[u].username = username
    THEN CHOOSE u \in DOMAIN us : us[u].username = username
    ELSE NoId

get_user_by_username(us, username) ==
    IF \E u \in DOMAIN us : us[u].username = Lower(username)
    THEN CHOOSE u \in DOMAIN us : us[u].username = Lower(username)
    ELSE NoId

authenticate_user(us, username, password) ==
    IF /\ get_user_by_username(us, username) # NoId
       /\ verify_password(password, us[get_user_by_username(us, username)].password_hash)
    THEN get_user_by_username(us, username)
    ELSE NoId

\* an update_user_tokens whose two amounts are bound to the wrong columns
update_user_tokens_swapped(us, user_id, input_tokens, output_tokens) ==
    [ u \in DOMAIN us |->
        IF u = user_id
        THEN [ us[u] EXCEPT !.total_input_tokens = @ + output_tokens,
                            !.total_output_tokens = @ + input_tokens ]
        ELSE us[u] ]

\* update_user_tokens: UPDATE users SET total_* = total_* + ? WHERE id = ?
update_user_tokens(us, user_id, input_tokens, output_tokens) ==
    [ u \in DOMAIN us |->
        IF u = user_id
        THEN [ us[u] EXCEPT !.total_input_tokens = @ + input_tokens,
                            !.total_output_tokens = @ + output_tokens ]
        ELSE us[u] ]

\* ---------------------------------------------------- conversations table
\* a create_conversation that first clears away the user's unsaved
\* conversations that have no usage
create_conversation_purging(cs, conv_id, user_id, title) ==
    LET kept == { c \in DOMAIN cs : ~ ( /\ cs[c].user_id = user_id
                                         /\ cs[c].is_saved = 0
                                         /\ cs[c].input_tokens = 0 ) }
    IN [ c \in kept |-> cs[c] ]
          @@ (conv_id :> [ user_id |-> user_id, title |-> title, is_saved |-> 0,
                           input_tokens |-> 0, output_tokens |-> 0 ])

create_conversation(cs, conv_id, user_id, title) ==
    cs @@ (conv_id :> [ user_id |-> user_id,
                        title |-> title,
                        is_saved |-> 0,
                        input_tokens |-> 0,
                        output_tokens |-> 0 ])

get_conversation(cs, conv_id) ==
    IF conv_id \in DOMAIN cs THEN conv_id ELSE NoId

\* get_user_conversations(user_id, saved_only=True): the ids selected
get_saved_conversations(cs, user_id) ==
    { c \in DOMAIN cs : cs[c].user_id = user_id /\ cs[c].is_saved = 1 }

\* update_conversation: every argument that is not None is applied; the
\* token arguments are added to the stored counters
update_conversation(cs, conv_id, title, is_saved, input_tokens, output_tokens) ==
    [ c \in DOMAIN cs |->
        IF c = conv_id
        THEN [ cs[c] EXCEPT
                 !.title = IF title # NoStr THEN title ELSE @,
                 !.is_saved = IF is_saved # NoInt THEN is_saved ELSE @,
                 !.input_tokens = IF input_tokens # NoInt THEN @ + input_tokens ELSE @,
                 !.output_tokens = IF output_tokens # NoInt THEN @ + output_tokens ELSE @ ]
        ELSE cs[c] ]

\* a delete_conversation without its first statement: the messages stay
delete_conversation_messages_kept(ms, conv_id) == ms

\* delete_conversation: DELETE FROM messages WHERE conversation_id = ?
delete_conversation_messages(ms, conv_id) ==
    [ m \in { x \in DOMAIN ms : ms[x].conversation_id # conv_id } |-> ms[m] ]

\* delete_conversation: DELETE FROM conversations WHERE id = ?
delete_conversation_row(cs, conv_id) ==
    [ c \in DOMAIN cs \ {conv_id} |-> cs[c] ]

\* --------------------------------------------------------- messages table
\* the content argument of add_message: a Python str or a Python list. An
\* item of a list that is not a dict is the record [py_value |-> ...].
PyStr(str) == [ py |-> "str", value |-> str ]
PyList(list) == [ py |-> "list", value |-> list ]
IsDict(block) == "py_value" \notin DOMAIN block

\* add_message: a dict block loses its "type" key
CleanBlock(block) == [ k \in DOMAIN block \ {"type"} |-> block[k] ]

\* add_message: the cleaned list of a list of blocks; items that are not
\* dicts are kept
CleanContent(content) ==
    [ i \in 1..Len(content) |->
        IF IsDict(content[i]) THEN CleanBlock(content[i]) ELSE content[i] ]

\* add_message: what content_json decodes to. A str becomes a one-block
\* list, a list is cleaned, anything else is stored as it is (json.loads
\* gives back what json.dumps was given)
content_json(content) ==
    IF content.py = "str" THEN << [text |-> content.value] >>
    ELSE IF content.py = "list" THEN CleanContent(content.value)
    ELSE content.value

\* json.dumps cannot encode a bytes value: a block that carries raw bytes
\* (the image and document blocks build_api_message makes)
HasBytes(block) == "image" \in DOMAIN block \/ "document" \in DOMAIN block

\* add_message: json.dumps(cleaned_content) raises TypeError, before the
\* INSERT, when a block of the list carries bytes
add_message_raises(content) ==
    /\ content.py = "list"
    /\ \E i \in 1..Len(content.value) : HasBytes(CleanContent(content.value)[i])

\* an add_message whose statement also stamps the token counts on the rows
\* the conversation already has (an UPDATE keyed by conversation_id)
add_message_restamping(ms, msg_id, conversation_id, role, content, now, input_tokens, output_tokens) ==
    [ m \in DOMAIN ms \cup {msg_id} |->
        IF m = msg_id
        THEN [ conversation_id |-> conversation_id,
               role |-> role,
               content |-> content_json(content),
               created_at |-> now,
               input_tokens |-> input_tokens,
               output_tokens |-> output_tokens ]
        ELSE IF ms[m].conversation_id = conversation_id
        THEN [ ms[m] EXCEPT !.input_tokens = input_tokens,
                            !.output_tokens = output_tokens ]
        ELSE ms[m] ]

\* add_message: the messages table afterwards (unchanged when json.dumps
\* raises). The foreign key to conversations is declared but SQLite does
\* not enforce it unless PRAGMA foreign_keys is set, which get_connection
\* never does: the row is inserted whether or not conversation_id exists
add_message(ms, msg_id, conversation_id, role, content, now, input_tokens, output_tokens) ==
    IF add_message_raises(content)
    THEN ms
    ELSE ms @@ (msg_id :> [ conversation_id |-> conversation_id,
                            role |-> role,
                            content |-> content_json(content),
                            created_at |-> now,
                            input_tokens |-> input_tokens,
                            output_tokens |-> output_tokens ])

\* the order of two isoformat() timestamps as SQLite compares the strings
TimeLE(a, b) == a.sec < b.sec \/ (a.sec = b.sec /\ a.usec <= b.usec)

MessagesOf(ms, conversation_id) ==
    { m \in DOMAIN ms : ms[m].conversation_id = conversation_id }

\* get_conversation_messages: SELECT ... ORDER BY created_at ASC. Rows with
\* equal created_at come in an order SQL leaves open: every sequence of the
\* conversation's rows that is sorted by created_at is a possible result.
get_conversation_messages(ms, conversation_id) ==
    LET S == MessagesOf(ms, conversation_id)
        n == Cardinality(S)
    IN { o \in [1..n -> S] :
            /\ \A i, j \in 1..n : i # j => o[i] # o[j]
            /\ \A i, j \in 1..n : i < j => TimeLE(ms[o[i]].created_at, ms[o[j]].created_at) }

\* get_messages_for_api: role and decoded content of each row, in row order
get_messages_for_api(ms, rows) ==
    [ i \in 1..Len(rows) |-> [ role |-> ms[rows[i]].role, content |-> ms[rows[i]].content ] ]

\* -------------------------------------------------------- JWTAuthProvider
\* _create_token: the payload names the user and expires
\* JWT_EXPIRATION_HOURS after the clock reading; the token is signed with the
\* configured key
create_token(user_id, now) ==
    [ user_id |-> user_id,
      exp |-> now.sec + JWT_EXPIRATION_HOURS * SECONDS_PER_HOUR,
      signed |-> TRUE ]

\* a jwt.decode that still accepts a token in the second it expires
jwt_decode_ok_lenient(token, now) == token.signed /\ now.sec <= token.exp

\* jwt.decode: a wrongly signed token raises InvalidTokenError, one whose exp
\* (whole seconds) has been reached raises ExpiredSignatureError
jwt_decode_ok(token, now) == token.signed /\ now.sec < token.exp

\* validate_token: the user of a valid token, if the row exists
validate_token(us, token, now) ==
    IF jwt_decode_ok(token, now) /\ token.user_id # NoId
    THEN get_user_by_id(us, token.user_id)
    ELSE NoId

\* authenticate: AuthResult(success, user, token, error)
authenticate(us, username, password, now) ==
    IF authenticate_user(us, username, password) # NoId
    THEN [ success |-> TRUE,
           user |-> authenticate_user(us, username, password),
           token |-> create_token(authenticate_user(us, username, password), now),
           error |-> NoStr ]
    ELSE [ success |-> FALSE, user |-> NoId, token |-> NoToken,
           error |-> "Invalid username or password" ]

\* a register that checks the email address before the user name
register_input_error_email_first(username, email, password) ==
    IF email = "" \/ ~Contains(email, "@")
    THEN "Please enter a valid email address"
    ELSE IF username = "" \/ Len(username) < MIN_USERNAME_LEN
    THEN "Username must be at least 3 characters"
    ELSE IF password = "" \/ Len(password) < MIN_PASSWORD_LEN
    THEN "Password must be at least 8 characters"
    ELSE NoStr

\* register: the error of the first failing input check, NoStr if none fails
register_input_error(username, email, password) ==
    IF username = "" \/ Len(username) < MIN_USERNAME_LEN
    THEN "Username must be at least 3 characters"
    ELSE IF email = "" \/ ~Contains(email, "@")
    THEN "Please enter a valid email address"
    ELSE IF password = "" \/ Len(password) < MIN_PASSWORD_LEN
    THEN "Password must be at least 8 characters"
    ELSE NoStr

\* register: AuthResult(success, user, token, error)
register(us, username, email, password, now) ==
    IF register_input_error(username, email, password) # NoStr
    THEN [ success |-> FALSE, user |-> NoId, token |-> NoToken,
           error |-> register_input_error(username, email, password) ]
    ELSE IF create_user_result(us, username, email, password) = NoId
    THEN [ success |-> FALSE, user |-> NoId, token |-> NoToken,
           error |-> "Username or email already exists" ]
    ELSE [ success |-> TRUE,
           user |-> create_user_result(us, username, email, password),
           token |-> create_token(create_user_result(us, username, email, password), now),
           error |-> NoStr ]

\* register: the users table afterwards (create_user is attempted only when
\* the three input checks pass)
register_users(us, username, email, password) ==
    IF register_input_error(username, email, password) # NoStr
    THEN us
    ELSE create_user(us, username, email, password)

\* ------------------------------------------------------------- check_auth
EmptySession ==
    [ authenticated |-> FALSE, user |-> NoId, token |-> NoToken,
      current_conversation |-> NoId, messages |-> <<>>, pending_files |-> <<>> ]

\* a check_auth that does not look at the query parameters
check_auth_session_only(us, st, qtoken, now) ==
    IF /\ st.authenticated
       /\ st.token # NoToken
       /\ validate_token(us, st.token, now) # NoId
    THEN [ ok |-> TRUE,
           st |-> [ st EXCEPT !.user = validate_token(us, st.token, now) ] ]
    ELSE [ ok |-> FALSE, st |-> st ]

\* a check_auth that takes the session's authenticated flag at its word and
\* does not validate the session's token again
check_auth_trusting(us, st, qtoken, now) ==
    IF st.authenticated /\ st.token # NoToken
    THEN [ ok |-> TRUE, st |-> st ]
    ELSE IF qtoken # NoToken /\ validate_token(us, qtoken, now) # NoId
    THEN [ ok |-> TRUE,
           st |-> [ st EXCEPT !.authenticated = TRUE,
                              !.user = validate_token(us, qtoken, now),
                              !.token = qtoken ] ]
    ELSE [ ok |-> FALSE, st |-> st ]

\* check_auth: the result and the session state it leaves. The token of the
\* session state is tried first, then the token of the query parameters.
check_auth(us, st, qtoken, now) ==
    IF /\ st.authenticated
       /\ st.token # NoToken
       /\ validate_token(us, st.token, now) # NoId
    THEN [ ok |-> TRUE,
           st |-> [ st EXCEPT !.user = validate_token(us, st.token, now) ] ]
    ELSE IF qtoken # NoToken /\ validate_token(us, qtoken, now) # NoId
    THEN [ ok |-> TRUE,
           st |-> [ st EXCEPT !.authenticated = TRUE,
                              !.user = validate_token(us, qtoken, now),
                              !.token = qtoken ] ]
    ELSE [ ok |-> FALSE, st |-> st ]

\* a logout that leaves the token in the URL
logout_query_params_kept(token) == token

\* logout: st.query_params.clear()
logout_query_params(token) == NoToken

\* logout: the keys removed from the session state
logout_state(st) ==
    [ st EXCEPT !.authenticated = FALSE, !.user = NoId, !.token = NoToken,
                !.current_conversation = NoId, !.messages = <<>> ]

\* ------------------------------------------------------- the remote stream
\* events of the converse_stream response
Delta(text) ==
    [ kind |-> "contentBlockDelta", has_text |-> TRUE, text |-> text,
      inputTokens |-> 0, outputTokens |-> 0 ]
Metadata(input_tokens, output_tokens) ==
    [ kind |-> "metadata", has_text |-> FALSE, text |-> "",
      inputTokens |-> input_tokens, outputTokens |-> output_tokens ]
MessageStop ==
    [ kind |-> "messageStop", has_text |-> FALSE, text |-> "",
      inputTokens |-> 0, outputTokens |-> 0 ]

\* a contentBlockDelta event whose delta has no "text" (a tool-use delta)
ToolUseDelta ==
    [ kind |-> "contentBlockDelta", has_text |-> FALSE, text |-> "",
      inputTokens |-> 0, outputTokens |-> 0 ]

\* the event streams the endpoint answers with
EventStreams == { <<Delta("o"), Delta("k"), Metadata(2, 1), MessageStop>> }
\* str(e) of the exceptions the remote call raises
ExceptionTexts == {"boom"}

StreamChunk(text, is_final, input_tokens, output_tokens) ==
    [ text |-> text, is_final |-> is_final,
      input_tokens |-> input_tokens, output_tokens |-> output_tokens ]

\* stream_message, the loop over the events: one non-final chunk per
\* contentBlockDelta event that carries text
RECURSIVE DeltaChunks(_)
DeltaChunks(events) ==
    IF events = <<>> THEN <<>>
    ELSE (IF Head(events).kind = "contentBlockDelta" /\ Head(events).has_text
          THEN <<StreamChunk(Head(events).text, FALSE, 0, 0)>>
          ELSE <<>>) \o DeltaChunks(Tail(events))

\* a loop over the events that keeps the usage of the first metadata event
RECURSIVE LastUsage_first(_, _)
LastUsage_first(events, usage) ==
    IF events = <<>> THEN usage
    ELSE IF Head(events).kind = "metadata"
    THEN [ input_tokens |-> Head(events).inputTokens,
           output_tokens |-> Head(events).outputTokens ]
    ELSE LastUsage_first(Tail(events), usage)

\* stream_message, the loop over the events: the usage of the last metadata
\* event, (0, 0) before any
RECURSIVE LastUsage(_, _)
LastUsage(events, usage) ==
    IF events = <<>> THEN usage
    ELSE LastUsage(Tail(events),
                   IF Head(events).kind = "metadata"
                   THEN [ input_tokens |-> Head(events).inputTokens,
                          output_tokens |-> Head(events).outputTokens ]
                   ELSE usage)

\* stream_message: everything yielded when the stream ends normally
stream_message(events) ==
    DeltaChunks(events)
        \o << StreamChunk("", TRUE,
                          LastUsage(events, [input_tokens |-> 0, output_tokens |-> 0]).input_tokens,
                          LastUsage(events, [input_tokens |-> 0, output_tokens |-> 0]).output_tokens) >>

\* show_chat_page, the loop over the chunks
RECURSIVE ConsumeChunks(_, _)
ConsumeChunks(chunks, acc) ==
    IF chunks = <<>> THEN acc
    ELSE ConsumeChunks(Tail(chunks),
            IF Head(chunks).is_final
            THEN [ acc EXCEPT !.input_tokens = Head(chunks).input_tokens,
                              !.output_tokens = Head(chunks).output_tokens ]
            ELSE [ acc EXCEPT !.full_response = @ \o Head(chunks).text ])

\* a try block whose except branch appends the error text to what was
\* streamed (full_response += ...)
StreamOutcome_appending(events, fail_at, exc) ==
    LET start == [ full_response |-> "", input_tokens |-> 0, output_tokens |-> 0,
                   e |-> NoStr ]
    IN IF fail_at = NoInt
       THEN ConsumeChunks(stream_message(events), start)
       ELSE [ ConsumeChunks(DeltaChunks(SubSeq(events, 1, fail_at)), start)
                EXCEPT !.full_response = @ \o "Error: " \o exc, !.e = exc ]

\* show_chat_page, the try block: fail_at = NoInt when nothing raises, else
\* the number of events read before create_llm_client / stream_message raises
\* (0: before the first event); the except branch binds the exception text to
\* e and replaces the response text
StreamOutcome(events, fail_at, exc) ==
    LET start == [ full_response |-> "", input_tokens |-> 0, output_tokens |-> 0,
                   e |-> NoStr ]
    IN IF fail_at = NoInt
       THEN ConsumeChunks(stream_message(events), start)
       ELSE [ ConsumeChunks(DeltaChunks(SubSeq(events, 1, fail_at)), start)
                EXCEPT !.full_response = "Error: " \o exc, !.e = exc ]

\* ----------------------------------------------------------- file handling
\* config.ALLOWED_EXTENSIONS: extension -> MIME type
ALLOWED_EXTENSIONS ==
    (".pdf" :> "application/pdf")
    @@ (".doc" :> "application/msword")
    @@ (".docx" :> "application/vnd.openxmlformats-officedocument.wordprocessingml.document")
    @@ (".txt" :> "text/plain")
    @@ (".md" :> "text/markdown")
    @@ (".csv" :> "text/csv")
    @@ (".png" :> "image/png")
    @@ (".jpg" :> "image/jpeg")
    @@ (".jpeg" :> "image/jpeg")
    @@ (".gif" :> "image/gif")
    @@ (".webp" :> "image/webp")

\* ", ".join(ALLOWED_EXTENSIONS.keys()): the keys in the order of config.py
AllowedExtensionKeys ==
    ".pdf, .doc, .docx, .txt, .md, .csv, .png, .jpg, .jpeg, .gif, .webp"

\* a validate_file that turns away a file of exactly the allowed size
validate_file_below_limit(filename, file_size) ==
    IF Lower(Suffix(filename)) \notin DOMAIN ALLOWED_EXTENSIONS
    THEN [ is_valid |-> FALSE,
           error |-> "File type '" \o Lower(Suffix(filename))
                        \o "' is not supported. Allowed: " \o AllowedExtensionKeys ]
    ELSE IF file_size >= MAX_FILE_SIZE_MB * 1024 * 1024
    THEN [ is_valid |-> FALSE, error |-> "File size exceeds 25MB limit" ]
    ELSE [ is_valid |-> TRUE, error |-> "" ]

\* validate_file: (is_valid, error_message); the extension is checked first
validate_file(filename, file_size) ==
    IF Lower(Suffix(filename)) \notin DOMAIN ALLOWED_EXTENSIONS
    THEN [ is_valid |-> FALSE,
           error |-> "File type '" \o Lower(Suffix(filename))
                        \o "' is not supported. Allowed: " \o AllowedExtensionKeys ]
    ELSE IF file_size > MAX_FILE_SIZE_MB * 1024 * 1024
    THEN [ is_valid |-> FALSE, error |-> "File size exceeds 25MB limit" ]
    ELSE [ is_valid |-> TRUE, error |-> "" ]

get_mime_type(filename) ==
    IF Lower(Suffix(filename)) \in DOMAIN ALLOWED_EXTENSIONS
    THEN ALLOWED_EXTENSIONS[Lower(Suffix(filename))]
    ELSE "application/octet-stream"

\* base64.b64encode(...).decode() and base64.b64decode: the encoded form
\* decodes to the bytes it was made from
b64encode(bytes) == [ b64 |-> bytes ]
b64decode(str) == str.b64

\* file_data.decode("utf-8") (latin-1 as the fallback): the text of the bytes
decode_text(file_data) == file_data.body

\* extract_docx_text: the paragraphs of the document, or the error note
extract_docx_text(file_data) ==
    IF file_data.docx
    THEN file_data.body
    ELSE "[Could not extract text from document: <str(e)>]"

\* process_file raises FileProcessingError exactly when validate_file rejects
\* the name and the length of the data
process_file_raises(filename, file_data) ==
    ~ validate_file(filename, file_data.size).is_valid

\* process_file: the dict returned when it does not raise; extracted_text is
\* present for text files and Word documents only
process_file(filename, file_data) ==
    LET base == [ name |-> filename,
                  type |-> get_mime_type(filename),
                  data |-> b64encode(file_data) ]
        ext == Lower(Suffix(filename))
    IN IF ext \in {".txt", ".md", ".csv"}
       THEN base @@ [ extracted_text |-> decode_text(file_data) ]
       ELSE IF ext \in {".doc", ".docx"}
       THEN base @@ [ extracted_text |-> extract_docx_text(file_data) ]
       ELSE base

\* -------------------------------------------------------------- chat page
\* file_type.startswith("image/")
IsImageType(file_type) == Len(file_type) >= 6 /\ SubSeq(file_type, 1, 6) = "image/"

\* build_api_message: the image format of a MIME type, "png" by default
ImageFormat(file_type) ==
    CASE file_type = "image/png" -> "png"
      [] file_type = "image/jpeg" -> "jpeg"
      [] file_type = "image/jpg" -> "jpeg"
      [] file_type = "image/gif" -> "gif"
      [] file_type = "image/webp" -> "webp"
      [] OTHER -> "png"

\* str.replace(" ", "_")
RECURSIVE ReplaceSpaces(_)
ReplaceSpaces(str) ==
    IF str = "" THEN ""
    ELSE (IF SubSeq(str, 1, 1) = " " THEN "_" ELSE SubSeq(str, 1, 1))
            \o ReplaceSpaces(SubSeq(str, 2, Len(str)))

\* build_api_message: file_name.replace(" ", "_")[:100]
SanitizeName(file_name) ==
    IF Len(file_name) > DOCUMENT_NAME_LEN
    THEN SubSeq(ReplaceSpaces(file_name), 1, DOCUMENT_NAME_LEN)
    ELSE ReplaceSpaces(file_name)

\* build_api_message: the content blocks of one file (none for a text file
\* without extracted text). Image and document blocks carry the raw bytes.
FileBlocks(file) ==
    IF IsImageType(file.type)
    THEN << [ image |-> [ format |-> ImageFormat(file.type),
                          source |-> [ bytes |-> b64decode(file.data) ] ] ] >>
    ELSE IF file.type = "application/pdf"
    THEN << [ document |-> [ format |-> "pdf",
                             name |-> SanitizeName(file.name),
                             source |-> [ bytes |-> b64decode(file.data) ] ] ] >>
    ELSE IF "extracted_text" \in DOMAIN file /\ file.extracted_text # ""
    THEN << [ text |-> "[File: " \o file.name \o "]\n" \o file.extracted_text ] >>
    ELSE <<>>

RECURSIVE AllFileBlocks(_)
AllFileBlocks(files) ==
    IF files = <<>> THEN <<>>
    ELSE FileBlocks(Head(files)) \o AllFileBlocks(Tail(files))

\* build_api_message: the blocks of the files first, then the prompt's text
build_api_message(text, files) ==
    [ role |-> "user",
      content |-> AllFileBlocks(files) \o (IF text # "" THEN << [text |-> text] >> ELSE <<>>) ]

\* the auto-generated title
new_title(first_msg) ==
    IF Len(first_msg) > TITLE_PREFIX_LEN
    THEN SubSeq(first_msg, 1, TITLE_PREFIX_LEN) \o "..."
    ELSE first_msg

\* show_chat_page: the files entry of the displayed user message
DisplayFiles(files) ==
    [ i \in 1..Len(files) |-> [ name |-> files[i].name, type |-> files[i].type ] ]

\* load_conversation: the text blocks of a stored content, joined by "\n"
RECURSIVE TextParts(_)
TextParts(content) ==
    IF content = <<>> THEN <<>>
    ELSE (IF "text" \in DOMAIN Head(content) THEN <<Head(content).text>> ELSE <<>>)
            \o TextParts(Tail(content))

RECURSIVE JoinLines(_)
JoinLines(parts) ==
    IF Len(parts) = 1 THEN parts[1]
    ELSE parts[1] \o "\n" \o JoinLines(Tail(parts))

DisplayContent(content) ==
    IF TextParts(content) # <<>> THEN JoinLines(TextParts(content)) ELSE "str(content)"

\* load_conversation: the display messages of the rows read
display_messages(ms, rows) ==
    [ i \in 1..Len(rows) |->
        [ role |-> ms[rows[i]].role, content |-> DisplayContent(ms[rows[i]].content) ] ]

\* datetime.now(): the readings a call can get. The wall clock has moved on
\* since the last reading, or it has not (two calls can fall within the
\* clock's resolution); no clock adjustment is modelled, so it never reads
\* an earlier time.
Readings == { [clock EXCEPT !.usec = @ + dt] : dt \in {0, 1} }

\* the locals of show_chat_page outside a send
NoLocals ==
    [ conv_id |-> NoId, user_msg |-> NoId, all_messages |-> <<>>, history_rows |-> <<>>,
      full_response |-> "", input_tokens |-> 0, output_tokens |-> 0, e |-> NoStr ]

\* sessions whose send has not yet stored its assistant message
SendsAwaitingReply ==
    { s \in Sessions : pc[s] \in {"get_history", "stream", "save_assistant"} }

\* rows inserted so far, counting the assistant message of every send that
\* has not stored it yet
RowsClaimed == nextConv + nextMsg + Cardinality(SendsAwaitingReply)

\* no library function has been called directly
NoCall == [ fn |-> "none" ]

\* ------------------------------------------------------------------- Init
\* an empty database; each browser session is about to run main for the
\* first time, with an empty session state and no token in its URL
Init ==
    /\ users = <<>>
    /\ conversations = <<>>
    /\ messages = <<>>
    /\ nextConv = 0
    /\ nextMsg = 0
    /\ clock = [sec |-> 0, usec |-> 0]
    /\ ss = [ s \in Sessions |-> EmptySession ]
    /\ qp = [ s \in Sessions |-> NoToken ]
    /\ pc = [ s \in Sessions |-> "run" ]
    /\ page = [ s \in Sessions |-> "none" ]
    /\ lv = [ s \in Sessions |-> NoLocals ]
    /\ call = NoCall

\* check_auth as main calls it in a run of session s
Auth(s) == check_auth(users, ss[s], qp[s], clock)

\* ------------------------------------------------- main: a run, no event
\* main after st.rerun() or a page load, check_auth fails: the auth page
RunAuthPage(s) ==
    /\ pc[s] = "run"
    /\ ~Auth(s).ok
    /\ pc' = [pc EXCEPT ![s] = "idle"]
    /\ page' = [page EXCEPT ![s] = "auth"]
    /\ UNCHANGED <<dbvars, clock, ss, qp, lv, call>>

\* main after st.rerun() or a page load, check_auth succeeds: show_sidebar,
\* then show_chat_page, which creates a conversation if the session has none
RunApp(s) ==
    /\ pc[s] = "run"
    /\ Auth(s).ok
    /\ IF Auth(s).st.current_conversation = NoId
       THEN /\ RowsClaimed < MaxRows
            /\ nextConv' = nextConv + 1
            /\ conversations' = create_conversation(conversations, nextConv + 1,
                                                    Auth(s).st.user, "New Chat")
            /\ ss' = [ss EXCEPT ![s] = [Auth(s).st EXCEPT !.current_conversation = nextConv + 1]]
       ELSE /\ ss' = [ss EXCEPT ![s] = Auth(s).st]
            /\ UNCHANGED <<nextConv, conversations>>
    /\ pc' = [pc EXCEPT ![s] = "idle"]
    /\ page' = [page EXCEPT ![s] = "app"]
    /\ UNCHANGED <<users, messages, nextMsg, clock, qp, lv, call>>

\* ------------------------------------------------- main: the auth page
\* a widget event arrives but check_auth fails (the token has expired): only
\* the auth page is rendered
ShowAuthPage(s) ==
    /\ pc[s] = "idle"
    /\ ~Auth(s).ok
    /\ page[s] # "auth"
    /\ page' = [page EXCEPT ![s] = "auth"]
    /\ UNCHANGED <<dbvars, clock, ss, qp, pc, lv, call>>

\* show_login_form, the Login button
Login(s, form) ==
    /\ pc[s] = "idle"
    /\ ~Auth(s).ok
    /\ form.username # "" /\ form.password # ""
    /\ LET result == authenticate(users, form.username, form.password, clock)
       IN IF result.success
          THEN /\ ss' = [ss EXCEPT ![s] = [ss[s] EXCEPT !.authenticated = TRUE,
                                                        !.user = result.user,
                                                        !.token = result.token]]
               /\ qp' = [qp EXCEPT ![s] = result.token]
               /\ pc' = [pc EXCEPT ![s] = "run"]
          ELSE UNCHANGED <<ss, qp, pc>>
    /\ page' = [page EXCEPT ![s] = "auth"]
    /\ UNCHANGED <<dbvars, clock, lv, call>>

\* show_register_form, the Create Account button
Register(s, form) ==
    /\ pc[s] = "idle"
    /\ ~Auth(s).ok
    /\ LET result == register(users, form.username, form.email, form.password, clock)
       IN /\ users' = register_users(users, form.username, form.email, form.password)
          /\ IF result.success
             THEN /\ ss' = [ss EXCEPT ![s] = [ss[s] EXCEPT !.authenticated = TRUE,
                                                           !.user = result.user,
                                                           !.token = result.token]]
                  /\ qp' = [qp EXCEPT ![s] = result.token]
                  /\ pc' = [pc EXCEPT ![s] = "run"]
             ELSE UNCHANGED <<ss, qp, pc>>
    /\ page' = [page EXCEPT ![s] = "auth"]
    /\ UNCHANGED <<conversations, messages, nextConv, nextMsg, clock, lv, call>>

\* --------------------------------------------------- main: sidebar events
\* the "+ New Chat" button
NewChat(s) ==
    /\ pc[s] = "idle"
    /\ Auth(s).ok
    /\ RowsClaimed < MaxRows
    /\ nextConv' = nextConv + 1
    /\ conversations' = create_conversation(conversations, nextConv + 1,
                                            Auth(s).st.user, "New Chat")
    /\ ss' = [ss EXCEPT ![s] = [Auth(s).st EXCEPT !.current_conversation = nextConv + 1,
                                                  !.messages = <<>>]]
    /\ pc' = [pc EXCEPT ![s] = "run"]
    /\ page' = [page EXCEPT ![s] = "app"]
    /\ UNCHANGED <<users, messages, nextMsg, clock, qp, lv, call>>

\* the button of a saved conversation: load_conversation
LoadConversation(s, c) ==
    /\ pc[s] = "idle"
    /\ Auth(s).ok
    /\ c \in get_saved_conversations(conversations, Auth(s).st.user)
    /\ \E rows \in get_conversation_messages(messages, c) :
          ss' = [ss EXCEPT ![s] = [Auth(s).st EXCEPT !.current_conversation = c,
                                                     !.messages = display_messages(messages, rows)]]
    /\ pc' = [pc EXCEPT ![s] = "run"]
    /\ page' = [page EXCEPT ![s] = "app"]
    /\ UNCHANGED <<dbvars, clock, qp, lv, call>>

\* the delete button of a saved conversation
DeleteConversation(s, c) ==
    /\ pc[s] = "idle"
    /\ Auth(s).ok
    /\ c \in get_saved_conversations(conversations, Auth(s).st.user)
    /\ messages' = delete_conversation_messages(messages, c)
    /\ conversations' = delete_conversation_row(conversations, c)
    /\ ss' = [ss EXCEPT ![s] =
                IF Auth(s).st.current_conversation = c
                THEN [Auth(s).st EXCEPT !.current_conversation = NoId, !.messages = <<>>]
                ELSE Auth(s).st]
    /\ pc' = [pc EXCEPT ![s] = "run"]
    /\ page' = [page EXCEPT ![s] = "app"]
    /\ UNCHANGED <<users, nextConv, nextMsg, clock, qp, lv, call>>

\* the "Save Chat" / "Saved" button of the current conversation
ToggleSave(s) ==
    /\ pc[s] = "idle"
    /\ Auth(s).ok
    /\ Auth(s).st.current_conversation # NoId
    /\ get_conversation(conversations, Auth(s).st.current_conversation) # NoId
    /\ conversations' =
          update_conversation(conversations, Auth(s).st.current_conversation, NoStr,
              IF conversations[Auth(s).st.current_conversation].is_saved = 1 THEN 0 ELSE 1,
              NoInt, NoInt)
    /\ ss' = [ss EXCEPT ![s] = Auth(s).st]
    /\ pc' = [pc EXCEPT ![s] = "run"]
    /\ page' = [page EXCEPT ![s] = "app"]
    /\ UNCHANGED <<users, messages, nextConv, nextMsg, clock, qp, lv, call>>

\* the Update button of the Rename expander
Rename(s, title) ==
    /\ pc[s] = "idle"
    /\ Auth(s).ok
    /\ Auth(s).st.current_conversation # NoId
    /\ get_conversation(conversations, Auth(s).st.current_conversation) # NoId
    /\ conversations' =
          update_conversation(conversations, Auth(s).st.current_conversation, title,
                              NoInt, NoInt, NoInt)
    /\ ss' = [ss EXCEPT ![s] = Auth(s).st]
    /\ pc' = [pc EXCEPT ![s] = "run"]
    /\ page' = [page EXCEPT ![s] = "app"]
    /\ UNCHANGED <<users, messages, nextConv, nextMsg, clock, qp, lv, call>>

\* the Logout button
Logout(s) ==
    /\ pc[s] = "idle"
    /\ Auth(s).ok
    /\ qp' = [qp EXCEPT ![s] = logout_query_params(@)]
    /\ ss' = [ss EXCEPT ![s] = logout_state(Auth(s).st)]
    /\ pc' = [pc EXCEPT ![s] = "run"]
    /\ page' = [page EXCEPT ![s] = "app"]
    /\ UNCHANGED <<dbvars, clock, lv, call>>

\* ------------------------------------------------ main: a send, step by step
\* st.chat_input returns a prompt: the user message is built from the prompt
\* and the pending files, displayed and stored (add_message, chat_page.py
\* line 285)
SendStart(s, prompt) ==
    /\ pc[s] = "idle"
    /\ Auth(s).ok
    /\ Auth(s).st.current_conversation # NoId
    /\ prompt # ""
    /\ RowsClaimed + 2 <= MaxRows
    /\ LET processed_files == Auth(s).st.pending_files
           api_message == build_api_message(prompt, processed_files)
       IN /\ ss' = [ss EXCEPT ![s] =
                      [Auth(s).st EXCEPT !.messages =
                          Append(@, [role |-> "user", content |-> prompt,
                                     files |-> DisplayFiles(processed_files)])]]
          /\ IF add_message_raises(PyList(api_message.content))
             THEN \* the TypeError leaves show_chat_page: the run ends here
                  /\ Len(Auth(s).st.messages) < MaxShown
                  /\ pc' = [pc EXCEPT ![s] = "idle"]
                  /\ UNCHANGED <<messages, nextMsg, clock, lv>>
             ELSE /\ nextMsg' = nextMsg + 1
                  /\ \E now \in Readings :
                        /\ clock' = now
                        /\ messages' = add_message(messages, nextMsg + 1,
                                                   Auth(s).st.current_conversation, "user",
                                                   PyList(api_message.content), now, 0, 0)
                  /\ lv' = [lv EXCEPT ![s] =
                              [NoLocals EXCEPT !.conv_id = Auth(s).st.current_conversation,
                                               !.user_msg = nextMsg + 1]]
                  /\ pc' = [pc EXCEPT ![s] = "get_history"]
    /\ page' = [page EXCEPT ![s] = "app"]
    /\ UNCHANGED <<users, conversations, nextConv, qp, call>>

\* all_messages = get_messages_for_api(conv_id)  (line 288)
GetHistory(s) ==
    /\ pc[s] = "get_history"
    /\ \E rows \in get_conversation_messages(messages, lv[s].conv_id) :
          lv' = [lv EXCEPT ![s] = [@ EXCEPT !.all_messages = get_messages_for_api(messages, rows),
                                            !.history_rows = rows]]
    /\ pc' = [pc EXCEPT ![s] = "stream"]
    /\ UNCHANGED <<dbvars, clock, ss, qp, page, call>>

\* the try block (lines 297-317): the remote call with all_messages, the
\* chunks read, or the exception caught. all_messages is not read again.
Stream(s) ==
    /\ pc[s] = "stream"
    /\ \E events \in EventStreams, exc \in ExceptionTexts :
       \E fail_at \in {NoInt} \cup (0..Len(events)) :
          lv' = [lv EXCEPT ![s] =
                    [@ EXCEPT !.all_messages = <<>>,
                              !.history_rows = <<>>,
                              !.full_response = StreamOutcome(events, fail_at, exc).full_response,
                              !.input_tokens = StreamOutcome(events, fail_at, exc).input_tokens,
                              !.output_tokens = StreamOutcome(events, fail_at, exc).output_tokens,
                              !.e = StreamOutcome(events, fail_at, exc).e]]
    /\ pc' = [pc EXCEPT ![s] = "save_assistant"]
    /\ UNCHANGED <<dbvars, clock, ss, qp, page, call>>

\* the assistant message is displayed and stored (lines 320-332)
SaveAssistant(s) ==
    /\ pc[s] = "save_assistant"
    /\ nextMsg' = nextMsg + 1
    /\ \E now \in Readings :
          /\ clock' = now
          /\ messages' = add_message(messages, nextMsg + 1, lv[s].conv_id, "assistant",
                                     PyList(<< [text |-> lv[s].full_response] >>), now,
                                     lv[s].input_tokens, lv[s].output_tokens)
    /\ ss' = [ss EXCEPT ![s] =
                [@ EXCEPT !.messages =
                    Append(@, [role |-> "assistant", content |-> lv[s].full_response])]]
    /\ pc' = [pc EXCEPT ![s] = "update_conversation"]
    /\ UNCHANGED <<users, conversations, nextConv, qp, page, lv, call>>

\* update_conversation(conv_id, input_tokens=..., output_tokens=...)  (line 335)
UpdateConversationTokens(s) ==
    /\ pc[s] = "update_conversation"
    /\ conversations' = update_conversation(conversations, lv[s].conv_id, NoStr, NoInt,
                                            lv[s].input_tokens, lv[s].output_tokens)
    /\ pc' = [pc EXCEPT ![s] = "update_user_tokens"]
    /\ UNCHANGED <<users, messages, nextConv, nextMsg, clock, ss, qp, page, lv, call>>

\* update_user_tokens(user.id, input_tokens, output_tokens)  (line 342)
UpdateUserTokens(s) ==
    /\ pc[s] = "update_user_tokens"
    /\ users' = update_user_tokens(users, ss[s].user, lv[s].input_tokens, lv[s].output_tokens)
    /\ pc' = [pc EXCEPT ![s] = "title"]
    /\ UNCHANGED <<conversations, messages, nextConv, nextMsg, clock, ss, qp, page, lv, call>>

\* the auto-generated title, the pending files cleared, then st.rerun()
\* (lines 345-355)
AutoTitle(s) ==
    /\ pc[s] = "title"
    /\ conversations' =
          IF /\ get_conversation(conversations, lv[s].conv_id) # NoId
             /\ conversations[lv[s].conv_id].title = "New Chat"
             /\ Len(ss[s].messages) >= 2
          THEN update_conversation(conversations, lv[s].conv_id,
                                   new_title(ss[s].messages[1].content), NoInt, NoInt, NoInt)
          ELSE conversations
    /\ ss' = [ss EXCEPT ![s].pending_files = <<>>]
    /\ lv' = [lv EXCEPT ![s] = NoLocals]
    /\ pc' = [pc EXCEPT ![s] = "run"]
    /\ UNCHANGED <<users, messages, nextConv, nextMsg, clock, qp, page, call>>

\* ---------------------------------------------- main: attaching files
\* the bridge delivers a file: process_file, then the file joins the pending
\* files unless one of that name is pending, and st.rerun(). A
\* FileProcessingError is shown and the run goes on (chat_page.py lines
\* 165-183). The bridge's value is taken to be delivered to one run only.
Upload(s, file) ==
    /\ pc[s] = "idle"
    /\ Auth(s).ok
    /\ Auth(s).st.current_conversation # NoId
    /\ LET file_bytes == b64decode(file.data)
           current_files == Auth(s).st.pending_files
       IN IF process_file_raises(file.name, file_bytes)
          THEN /\ ss' = [ss EXCEPT ![s] = Auth(s).st]
               /\ pc' = pc
          ELSE IF \E i \in 1..Len(current_files) : current_files[i].name = file.name
          THEN /\ ss' = [ss EXCEPT ![s] = Auth(s).st]
               /\ pc' = pc
          ELSE /\ Len(current_files) < MaxFiles
               /\ ss' = [ss EXCEPT ![s] =
                           [Auth(s).st EXCEPT !.pending_files =
                               Append(@, process_file(file.name, file_bytes))]]
               /\ pc' = [pc EXCEPT ![s] = "run"]
    /\ page' = [page EXCEPT ![s] = "app"]
    /\ UNCHANGED <<dbvars, clock, qp, lv, call>>

\* the "Clear attachments" button, shown while files are pending
ClearAttachments(s) ==
    /\ pc[s] = "idle"
    /\ Auth(s).ok
    /\ Auth(s).st.current_conversation # NoId
    /\ Auth(s).st.pending_files # <<>>
    /\ ss' = [ss EXCEPT ![s] = [Auth(s).st EXCEPT !.pending_files = <<>>]]
    /\ pc' = [pc EXCEPT ![s] = "run"]
    /\ page' = [page EXCEPT ![s] = "app"]
    /\ UNCHANGED <<dbvars, clock, qp, lv, call>>

\* ------------------------------------------------------------ environment
\* the wall clock moves on by the lifetime of a token
DayPasses ==
    /\ clock.sec < MaxDays * JWT_EXPIRATION_HOURS * SECONDS_PER_HOUR
    /\ clock' = [clock EXCEPT !.sec = @ + JWT_EXPIRATION_HOURS * SECONDS_PER_HOUR]
    /\ UNCHANGED <<dbvars, ss, qp, pc, page, lv, call>>

\* the browser reloads the page: a new Streamlit session (empty session
\* state) under the same URL, so the query parameters are kept
Refresh(s) ==
    /\ pc[s] = "idle"
    /\ page[s] = "app"
    /\ ss' = [ss EXCEPT ![s] = EmptySession]
    /\ pc' = [pc EXCEPT ![s] = "run"]
    /\ page' = [page EXCEPT ![s] = "none"]
    /\ UNCHANGED <<dbvars, clock, qp, lv, call>>

\* the browser opens the application's URL with ?token=tok: a new Streamlit
\* session
OpenUrl(s, tok) ==
    /\ pc[s] = "idle"
    /\ qp[s] # tok
    /\ ss' = [ss EXCEPT ![s] = EmptySession]
    /\ qp' = [qp EXCEPT ![s] = tok]
    /\ pc' = [pc EXCEPT ![s] = "run"]
    /\ page' = [page EXCEPT ![s] = "none"]
    /\ UNCHANGED <<dbvars, clock, lv, call>>

Next ==
    \/ \E s \in Sessions : RunAuthPage(s)
    \/ \E s \in Sessions : RunApp(s)
    \/ \E s \in Sessions, form \in LoginForms : Login(s, form)
    \/ \E s \in Primary, form \in RegForms : Register(s, form)
    \/ \E s \in Primary : NewChat(s)
    \/ \E s \in Sessions, c \in DOMAIN conversations : LoadConversation(s, c)
    \/ \E s \in Sessions, c \in DOMAIN conversations : DeleteConversation(s, c)
    \/ \E s \in Primary : ToggleSave(s)
    \/ \E s \in Primary, title \in RenameTitles : Rename(s, title)
    \/ \E s \in Primary : Logout(s)
    \/ \E s \in Sessions, prompt \in Prompts : SendStart(s, prompt)
    \/ \E s \in Sessions : GetHistory(s)
    \/ \E s \in Sessions : Stream(s)
    \/ \E s \in Sessions : SaveAssistant(s)
    \/ \E s \in Sessions : UpdateConversationTokens(s)
    \/ \E s \in Sessions : UpdateUserTokens(s)
    \/ \E s \in Sessions : AutoTitle(s)

Spec == Init /\ [][Next]_vars

\* one browser session over time: tokens expire, the page is reloaded, a
\* URL with a token is opened
NextAuth ==
    \/ \E s \in Primary : RunAuthPage(s)
    \/ \E s \in Primary : RunApp(s)
    \/ \E s \in Primary : ShowAuthPage(s)
    \/ \E s \in Primary, form \in LoginForms : Login(s, form)
    \/ \E s \in Primary, form \in RegForms : Register(s, form)
    \/ \E s \in Primary : NewChat(s)
    \/ \E s \in Primary, c \in DOMAIN conversations : LoadConversation(s, c)
    \/ \E s \in Primary, c \in DOMAIN conversations : DeleteConversation(s, c)
    \/ \E s \in Primary : ToggleSave(s)
    \/ \E s \in Primary : Logout(s)
    \/ \E s \in Primary, prompt \in Prompts : SendStart(s, prompt)
    \/ \E s \in Primary : GetHistory(s)
    \/ \E s \in Primary : Stream(s)
    \/ \E s \in Primary : SaveAssistant(s)
    \/ \E s \in Primary : UpdateConversationTokens(s)
    \/ \E s \in Primary : UpdateUserTokens(s)
    \/ \E s \in Primary : AutoTitle(s)
    \/ \E s \in Primary : Refresh(s)
    \/ \E s \in Primary, tok \in UrlTokens : OpenUrl(s, tok)
    \/ DayPasses

SpecAuth == Init /\ [][NextAuth]_vars

\* one browser session that attaches files to its prompts
NextFiles ==
    \/ \E s \in Primary : RunAuthPage(s)
    \/ \E s \in Primary, form \in RegForms : Register(s, form)
    \/ \E s \in Primary : RunApp(s)
    \/ \E s \in Primary, file \in Attachments : Upload(s, file)
    \/ \E s \in Primary : ClearAttachments(s)
    \/ \E s \in Primary, prompt \in Prompts : SendStart(s, prompt)
    \/ \E s \in Primary : GetHistory(s)
    \/ \E s \in Primary : Stream(s)
    \/ \E s \in Primary : SaveAssistant(s)
    \/ \E s \in Primary : UpdateConversationTokens(s)
    \/ \E s \in Primary : UpdateUserTokens(s)
    \/ \E s \in Primary : AutoTitle(s)

SpecFiles == Init /\ [][NextFiles]_vars

\* ===================================================================== C1
\* C1: a message row is never changed once written: in every step, a row
\* that is still in the table has the conversation, role, content,
\* created_at and token counts it had, and a row that has left the table
\* left it in a delete_conversation of its own conversation.
C1_MessagesImmutable ==
    [][\A m \in DOMAIN messages :
          /\ m \in DOMAIN messages' => messages'[m] = messages[m]
          /\ m \notin DOMAIN messages' =>
                \E s \in Sessions : DeleteConversation(s, messages[m].conversation_id)]_vars

\* a stored user message has outlived the rest of its send (the assistant
\* message, both counter updates, the title) and a save of its conversation
C1_Witness ==
    \E m \in DOMAIN messages :
        /\ messages[m].role = "user"
        /\ messages[m].conversation_id \in DOMAIN conversations
        /\ conversations[messages[m].conversation_id].input_tokens > 0
        /\ conversations[messages[m].conversation_id].title = "hi"
        /\ conversations[messages[m].conversation_id].is_saved = 1
        /\ \A s \in Sessions : pc[s] = "idle"

\* ===================================================================== C2
\* C2: within a conversation the messages are strictly ordered by creation
\* time: two rows of one conversation never have the same created_at, and
\* every result of get_conversation_messages lists them in the order they
\* were inserted.
C2_StrictCreationOrder ==
    \A m1, m2 \in DOMAIN messages :
        (m1 < m2 /\ messages[m1].conversation_id = messages[m2].conversation_id) =>
            /\ messages[m1].created_at # messages[m2].created_at
            /\ \A o \in get_conversation_messages(messages, messages[m1].conversation_id) :
                  \A i, j \in 1..Len(o) : (o[i] = m1 /\ o[j] = m2) => i < j

RECURSIVE SumInput(_, _)
SumInput(ms, S) ==
    IF S = {} THEN 0
    ELSE LET m == CHOOSE x \in S : TRUE
         IN ms[m].input_tokens + SumInput(ms, S \ {m})

RECURSIVE SumOutput(_, _)
SumOutput(ms, S) ==
    IF S = {} THEN 0
    ELSE LET m == CHOOSE x \in S : TRUE
         IN ms[m].output_tokens + SumOutput(ms, S \ {m})

\* C4: while no send is in progress, each conversation's counters equal the
\* sums of its messages' token counts; and every send adds the amounts it
\* reports both to its conversation's counters (the update_conversation
\* step) and to the totals of the user who owns that conversation (the
\* update_user_tokens step).
C4_TokensConsistent ==
    /\ [](( \A s \in Sessions : pc[s] \in {"idle", "run"} ) =>
            \A c \in DOMAIN conversations :
               /\ conversations[c].input_tokens = SumInput(messages, MessagesOf(messages, c))
               /\ conversations[c].output_tokens = SumOutput(messages, MessagesOf(messages, c)))
    /\ [][\A s \in Sessions :
             /\ UpdateConversationTokens(s) =>
                   /\ lv[s].conv_id \in DOMAIN conversations
                   /\ conversations'[lv[s].conv_id].input_tokens
                         = conversations[lv[s].conv_id].input_tokens + lv[s].input_tokens
                   /\ conversations'[lv[s].conv_id].output_tokens
                         = conversations[lv[s].conv_id].output_tokens + lv[s].output_tokens
             /\ UpdateUserTokens(s) =>
                   /\ lv[s].conv_id \in DOMAIN conversations
                   /\ LET owner == conversations[lv[s].conv_id].user_id
                      IN /\ users'[owner].total_input_tokens
                               = users[owner].total_input_tokens + lv[s].input_tokens
                         /\ users'[owner].total_output_tokens
                               = users[owner].total_output_tokens + lv[s].output_tokens]_vars

\* ===================================================================== C5
\* C5: delete_conversation(c) cascades by hand and touches nothing else:
\* after the step no message of c and no row c is left, every other
\* conversation and every message of another conversation is still there
\* unchanged, no row is added, and the users table is as it was.
C5_DeleteCascades ==
    [][\A s \in Sessions, c \in DOMAIN conversations :
          DeleteConversation(s, c) =>
             /\ c \notin DOMAIN conversations'
             /\ MessagesOf(messages', c) = {}
             /\ DOMAIN conversations' = DOMAIN conversations \ {c}
             /\ \A d \in DOMAIN conversations' : conversations'[d] = conversations[d]
             /\ DOMAIN messages' = DOMAIN messages \ MessagesOf(messages, c)
             /\ \A m \in DOMAIN messages' : messages'[m] = messages[m]
             /\ users' = users
             /\ nextConv' = nextConv /\ nextMsg' = nextMsg]_vars

\* a conversation that had messages has been deleted, its messages with it,
\* while another conversation is still stored
C5_Witness ==
    /\ nextMsg > 0
    /\ messages = <<>>
    /\ conversations # <<>>
    /\ Cardinality(DOMAIN conversations) < nextConv

\* ===================================================================== C6
\* C6: rows leave the database only through delete_conversation: a step in
\* which a conversation row or a message row disappears is a
\* delete_conversation step, and no step removes a user.
C6_OnlyDeleteRemoves ==
    [][/\ ( \/ \E c \in DOMAIN conversations : c \notin DOMAIN conversations'
            \/ \E m \in DOMAIN messages : m \notin DOMAIN messages' ) =>
               \E s \in Sessions, c \in DOMAIN conversations : DeleteConversation(s, c)
       /\ \A u \in DOMAIN users : u \in DOMAIN users' ]_vars

\* a conversation has been deleted and its owner is still a user
C6_Witness ==
    /\ \E c \in 1..nextConv : c \notin DOMAIN conversations
    /\ users # <<>>
    /\ \E s \in Sessions : page[s] = "app" /\ ss[s].user \in DOMAIN users

\* ===================================================================== C7
\* C7: referential integrity: every message belongs to a stored
\* conversation and every conversation to a stored user, whatever two
\* sessions of one account do to the same conversation.
C7_ReferentialIntegrity ==
    /\ \A m \in DOMAIN messages : messages[m].conversation_id \in DOMAIN conversations
    /\ \A c \in DOMAIN conversations : conversations[c].user_id \in DOMAIN users

\* ===================================================================== C9
\* C9: a send is one linear flow in a fixed order: the user message is
\* stored first; the history read for the remote call ends with that user
\* message; the remote call changes nothing in the database; the assistant
\* message is stored after it; then the conversation's counters are updated,
\* then the user's totals, then the title, and the re-run comes last.
C9_SendIsLinear ==
    /\ [](\A s \in Sessions :
            pc[s] = "stream" =>
               /\ lv[s].history_rows # <<>>
               /\ lv[s].history_rows[Len(lv[s].history_rows)] = lv[s].user_msg)
    /\ [][\A s \in Sessions :
             pc'[s] # pc[s] =>
                CASE pc[s] = "idle" ->
                        \/ pc'[s] = "run"
                        \/ /\ pc'[s] = "get_history"
                           /\ lv'[s].user_msg \in DOMAIN messages' \ DOMAIN messages
                           /\ messages'[lv'[s].user_msg].role = "user"
                  [] pc[s] = "get_history" ->
                        pc'[s] = "stream" /\ UNCHANGED dbvars
                  [] pc[s] = "stream" ->
                        pc'[s] = "save_assistant" /\ UNCHANGED dbvars
                  [] pc[s] = "save_assistant" ->
                        /\ pc'[s] = "update_conversation"
                        /\ DOMAIN messages' \ DOMAIN messages = {nextMsg'}
                        /\ messages'[nextMsg'].role = "assistant"
                        /\ UNCHANGED <<users, conversations>>
                  [] pc[s] = "update_conversation" ->
                        pc'[s] = "update_user_tokens" /\ UNCHANGED <<users, messages>>
                  [] pc[s] = "update_user_tokens" ->
                        pc'[s] = "title" /\ UNCHANGED <<conversations, messages>>
                  [] pc[s] = "title" ->
                        pc'[s] = "run" /\ UNCHANGED <<users, messages>>
                  [] OTHER -> pc'[s] = "idle"]_vars

\* ==================================================================== C10
\* C10: when the remote call raises, at any point of the stream, the send
\* goes on: the response text is exactly "Error: <exception text>" (nothing
\* of the streamed text is kept) and both token counts are 0; the assistant
\* message displayed and stored has that text and 0 / 0 tokens; the stored
\* user message is kept; the conversation's counters and the user's totals
\* keep their values.
C10_FailureHandled ==
    /\ [](\A s \in Sessions :
            lv[s].e # NoStr =>
               /\ pc[s] \in {"save_assistant", "update_conversation",
                              "update_user_tokens", "title"}
               /\ lv[s].full_response = "Error: " \o lv[s].e
               /\ lv[s].input_tokens = 0 /\ lv[s].output_tokens = 0)
    /\ [][\A s \in Sessions :
             (lv[s].e # NoStr /\ pc'[s] # pc[s]) =>
                CASE pc[s] = "save_assistant" ->
                        /\ pc'[s] = "update_conversation"
                        /\ nextMsg' \in DOMAIN messages' \ DOMAIN messages
                        /\ messages'[nextMsg'].conversation_id = lv[s].conv_id
                        /\ messages'[nextMsg'].role = "assistant"
                        /\ messages'[nextMsg'].content = << [text |-> "Error: " \o lv[s].e] >>
                        /\ messages'[nextMsg'].input_tokens = 0
                        /\ messages'[nextMsg'].output_tokens = 0
                        /\ ss'[s].messages[Len(ss'[s].messages)]
                              = [role |-> "assistant", content |-> "Error: " \o lv[s].e]
                        /\ \A m \in DOMAIN messages :
                              m \in DOMAIN messages' /\ messages'[m] = messages[m]
                  [] pc[s] = "update_conversation" ->
                        pc'[s] = "update_user_tokens" /\ conversations' = conversations
                  [] pc[s] = "update_user_tokens" ->
                        pc'[s] = "title" /\ users' = users
                  [] OTHER -> pc[s] = "title" /\ pc'[s] = "run"]_vars

\* a send whose remote call raised is over: the error message is stored with
\* 0 / 0 tokens next to the user message, and the counters are where they
\* were
C10_Witness ==
    \E m1, m2 \in DOMAIN messages :
        /\ messages[m1].role = "user"
        /\ messages[m2].role = "assistant"
        /\ messages[m1].conversation_id = messages[m2].conversation_id
        /\ messages[m2].content = << [text |-> "Error: boom"] >>
        /\ messages[m2].input_tokens = 0 /\ messages[m2].output_tokens = 0
        /\ messages[m1].conversation_id \in DOMAIN conversations
        /\ conversations[messages[m1].conversation_id].input_tokens = 0
        /\ \A u \in DOMAIN users : users[u].total_input_tokens = 0
        /\ \A s \in Sessions : pc[s] = "idle"

\* ===================================================================== C8
\* C8: in every run of main the sidebar and the chat page are rendered only
\* if check_auth returned True in that run, and it returns True exactly when
\* a token held in the session state or in the query parameters validates
\* to a stored user; in every other run only the auth page is rendered and
\* no conversation or message is created.
C8_TwoModes ==
    [][\A s \in Sessions :
          ( /\ pc[s] \in {"idle", "run"}
            /\ <<ss[s], qp[s], pc[s], page[s]>>' # <<ss[s], qp[s], pc[s], page[s]>>
            /\ page'[s] # "none" ) =>
             LET validated ==
                    \E tok \in {ss[s].token, qp[s]} :
                        tok # NoToken /\ validate_token(users, tok, clock) \in DOMAIN users
             IN /\ Auth(s).ok = validated
                /\ page'[s] = "app" => validated
                /\ ~validated =>
                      /\ page'[s] = "auth"
                      /\ UNCHANGED <<conversations, messages, nextConv, nextMsg>>]_vars

\* a session that was in the application is shown the auth page: the token
\* it holds, in its state and in its URL, has expired
C8_Witness ==
    \E s \in Sessions :
        /\ page[s] = "auth"
        /\ ss[s].authenticated
        /\ ss[s].token # NoToken /\ qp[s] = ss[s].token
        /\ validate_token(users, ss[s].token, clock) = NoId
        /\ ss[s].current_conversation \in DOMAIN conversations

\* ------------------------------------- direct calls of the auth provider
\* the tokens a caller can present: signed by the server's key or not, for
\* the ids of users that exist or do not, expiring a lifetime after a time
\* the clock can show
ClockTimes ==
    { d * JWT_EXPIRATION_HOURS * SECONDS_PER_HOUR - e : d \in 0..MaxDays, e \in {0, 1} }
        \ { -1 }

\* the ids of the users that can come to exist, and one more
TokenUserIds == 1..3

TokenInputs ==
    { [ user_id |-> u, exp |-> t + JWT_EXPIRATION_HOURS * SECONDS_PER_HOUR, signed |-> b ] :
        u \in TokenUserIds, t \in ClockTimes, b \in BOOLEAN }

\* refresh_token: a new token if the presented one validates, None otherwise
refresh_token(us, token, now) ==
    IF validate_token(us, token, now) # NoId
    THEN create_token(validate_token(us, token, now), now)
    ELSE NoToken

CallRegister(form) ==
    /\ users' = register_users(users, form.username, form.email, form.password)
    /\ call' = [ fn |-> "register", username |-> form.username, email |-> form.email,
                 password |-> form.password,
                 result |-> register(users, form.username, form.email, form.password, clock) ]
    /\ UNCHANGED <<conversations, messages, nextConv, nextMsg, clock, ss, qp, pc, page, lv>>

CallAuthenticate(username, password) ==
    /\ call' = [ fn |-> "authenticate", username |-> username, password |-> password,
                 result |-> authenticate(users, username, password, clock) ]
    /\ UNCHANGED <<dbvars, clock, ss, qp, pc, page, lv>>

CallValidateToken(token) ==
    /\ call' = [ fn |-> "validate_token", token |-> token,
                 result |-> validate_token(users, token, clock) ]
    /\ UNCHANGED <<dbvars, clock, ss, qp, pc, page, lv>>

CallRefreshToken(token) ==
    /\ call' = [ fn |-> "refresh_token", token |-> token,
                 result |-> refresh_token(users, token, clock) ]
    /\ UNCHANGED <<dbvars, clock, ss, qp, pc, page, lv>>

\* models.update_user_tokens, as a send calls it with the usage of a reply
CallUpdateUserTokens(user_id) ==
    /\ user_id \in DOMAIN users
    /\ users[user_id].total_input_tokens < 2 * MaxUsage
    /\ users' = update_user_tokens(users, user_id, 2, 1)
    /\ call' = [ fn |-> "update_user_tokens", user_id |-> user_id ]
    /\ UNCHANGED <<conversations, messages, nextConv, nextMsg, clock, ss, qp, pc, page, lv>>

\* the wall clock moves on to the last second of a token lifetime, and from
\* there to the second the lifetime ends; the result of the last call is
\* no longer at hand
TimePasses ==
    /\ clock.sec < MaxDays * JWT_EXPIRATION_HOURS * SECONDS_PER_HOUR
    /\ clock' = [clock EXCEPT !.sec =
                    IF (@ + 1) % (JWT_EXPIRATION_HOURS * SECONDS_PER_HOUR) = 0
                    THEN @ + 1
                    ELSE @ + JWT_EXPIRATION_HOURS * SECONDS_PER_HOUR - 1]
    /\ call' = NoCall
    /\ UNCHANGED <<dbvars, ss, qp, pc, page, lv>>

\* the provider and the users table, called directly
NextAccounts ==
    \/ \E form \in AccountForms : CallRegister(form)
    \/ \E n \in AccountNames, p \in AccountPasswords : CallAuthenticate(n, p)
    \/ \E token \in TokenInputs : CallValidateToken(token)
    \/ \E token \in TokenInputs : CallRefreshToken(token)
    \/ \E u \in TokenUserIds : CallUpdateUserTokens(u)
    \/ TimePasses

SpecAccounts == Init /\ [][NextAccounts]_vars

\* ==================================================================== C11
\* the kind of content block an accepted file stands for: an image, a
\* document (PDF), or text
BlockKindOf(file) ==
    IF IsImageType(file.type) THEN "image"
    ELSE IF file.type = "application/pdf" THEN "document"
    ELSE "text"

\* C11: whenever a session sends a non-empty prompt (the step that appends
\* the displayed user message), exactly one message row is inserted; it
\* belongs to the session's current conversation, has role "user", and its
\* content is one block per pending file, in the order of attachment,
\* followed by the text block of the prompt; and the send goes on to the
\* remote call.
C11_AttachmentsStored ==
    [][ \A s \in Primary :
          ( /\ pc[s] = "idle"
            /\ Len(ss'[s].messages) = Len(ss[s].messages) + 1
            /\ "files" \in DOMAIN ss'[s].messages[Len(ss'[s].messages)] )
          => LET files == ss[s].pending_files
                 prompt == ss'[s].messages[Len(ss'[s].messages)].content
                 new == DOMAIN messages' \ DOMAIN messages
             IN /\ Cardinality(new) = 1
                /\ \A m \in new :
                      /\ messages'[m].conversation_id = ss[s].current_conversation
                      /\ messages'[m].role = "user"
                      /\ Len(messages'[m].content) = Len(files) + 1
                      /\ \A i \in 1..Len(files) :
                            BlockKindOf(files[i]) \in DOMAIN messages'[m].content[i]
                      /\ messages'[m].content[Len(files) + 1] = [text |-> prompt]
                /\ pc'[s] = "get_history" ]_vars

\* ==================================================================== C12
\* C12: every call of authenticate leaves the users table as it was and
\* succeeds exactly when some user's stored name is the lower-cased name
\* given and the password given verifies against that user's hash; a
\* success carries that user and a token for it and no error, a failure
\* carries the error "Invalid username or password", no user and no token.
C12_Authenticate ==
    [][ call'.fn = "authenticate"
        => LET result == call'.result
               Matches(u) ==
                   /\ users[u].username = LowerOf(call'.username)
                   /\ users[u].password_hash = [pbkdf2_of |-> call'.password]
           IN /\ users' = users
              /\ result.success <=> \E u \in DOMAIN users : Matches(u)
              /\ result.success
                    => /\ result.user \in DOMAIN users
                       /\ Matches(result.user)
                       /\ result.token # NoToken
                       /\ result.token.user_id = result.user
                       /\ result.token.signed
                       /\ result.error = NoStr
              /\ ~result.success
                    => /\ result.error = "Invalid username or password"
                       /\ result.user = NoId
                       /\ result.token = NoToken ]_vars

\* a name typed in capitals has logged in to the account stored in lower
\* case, whose token totals are no longer zero
C12_Witness ==
    /\ call.fn = "authenticate"
    /\ call.result.success
    /\ call.username = "AMY"
    /\ users[call.result.user].username = "amy"
    /\ users[call.result.user].total_input_tokens > 0

\* ==================================================================== C13
\* C13: a call of register whose input is invalid fails with the error of
\* the first failing check (user name empty or shorter than 3, else email
\* empty or without "@", else password empty or shorter than 8) and leaves
\* the users table as it was; the table changes, or the error of
\* create_user is returned, only when all three checks pass.
C13_RegisterValidates ==
    [][ call'.fn = "register"
        => LET result == call'.result
               bad_username == call'.username = "" \/ Len(call'.username) < 3
               bad_email == call'.email = ""
                              \/ \A i \in 1..Len(call'.email) : SubSeq(call'.email, i, i) # "@"
               bad_password == call'.password = "" \/ Len(call'.password) < 8
               expected ==
                   IF bad_username THEN "Username must be at least 3 characters"
                   ELSE IF bad_email THEN "Please enter a valid email address"
                   ELSE "Password must be at least 8 characters"
           IN /\ (bad_username \/ bad_email \/ bad_password)
                    => /\ ~result.success
                       /\ result.error = expected
                       /\ result.user = NoId
                       /\ result.token = NoToken
                       /\ users' = users
              /\ (users' # users \/ result.error = "Username or email already exists")
                    => ~(bad_username \/ bad_email \/ bad_password) ]_vars

\* a registration with a short user name, an address without "@" and a
\* short password has been refused for its user name, while a user exists
C13_Witness ==
    /\ call.fn = "register"
    /\ call.username = "al" /\ call.email = "bob.x.org" /\ call.password = "secret"
    /\ call.result.error = "Username must be at least 3 characters"
    /\ users # <<>>

\* ==================================================================== C14
\* no two stored users have the same name or the same address, letter case
\* aside
C14_CaseInsensitiveUnique ==
    \A u, v \in DOMAIN users :
        u # v => /\ LowerOf(users[u].username) # LowerOf(users[v].username)
                 /\ LowerOf(users[u].email) # LowerOf(users[v].email)

\* C14 as stated: every call of register whose user name or address is, in
\* any letter case, that of a stored user fails with the error "Username or
\* email already exists" and leaves the users table as it was.
C14_DuplicateRefused ==
    [][ ( /\ call'.fn = "register"
          /\ \E u \in DOMAIN users :
                \/ LowerOf(users[u].username) = LowerOf(call'.username)
                \/ LowerOf(users[u].email) = LowerOf(call'.email) )
        => /\ ~call'.result.success
           /\ call'.result.error = "Username or email already exists"
           /\ users' = users ]_vars

\* C14, amended: in every reachable state user names and addresses are
\* unique, letter case aside; and every call of register that passes the
\* three input checks and whose user name or address is, in any letter
\* case, that of a stored user fails with the error "Username or email
\* already exists" and leaves the users table (credentials and token totals
\* of the stored users included) as it was.
C14_ValidDuplicateRefused ==
    /\ []C14_CaseInsensitiveUnique
    /\ [][ ( /\ call'.fn = "register"
             /\ Len(call'.username) >= 3
             /\ \E i \in 1..Len(call'.email) : SubSeq(call'.email, i, i) = "@"
             /\ Len(call'.password) >= 8
             /\ \E u \in DOMAIN users :
                   \/ LowerOf(users[u].username) = LowerOf(call'.username)
                   \/ LowerOf(users[u].email) = LowerOf(call'.email) )
           => /\ ~call'.result.success
              /\ call'.result.error = "Username or email already exists"
              /\ call'.result.user = NoId
              /\ call'.result.token = NoToken
              /\ users' = users ]_vars

\* a registration in capitals has been refused as a duplicate of the user
\* stored in lower case, whose token totals are no longer zero
C14_Witness ==
    /\ call.fn = "register"
    /\ call.username = "AMY"
    /\ call.result.error = "Username or email already exists"
    /\ \E u \in DOMAIN users : users[u].username = "amy" /\ users[u].total_input_tokens > 0

\* ==================================================================== C15
\* C15: validate_token returns the user of the token exactly when the token
\* is signed with the server's key, its expiry (24 hours after it was
\* issued) has not been reached, and its user_id is the id of a stored
\* user; in every other case it returns None. refresh_token returns a new
\* token (for the same user, expiring 24 hours from now) exactly when
\* validate_token returns a user for the token presented, None otherwise.
C15_TokenValidation ==
    LET Good(token) ==
            /\ token.signed
            /\ clock.sec < token.exp
            /\ token.user_id \in DOMAIN users
    IN /\ call.fn = "validate_token"
            => /\ call.result # NoId <=> Good(call.token)
               /\ Good(call.token) => call.result = call.token.user_id
       /\ call.fn = "refresh_token"
            => /\ call.result # NoToken <=> Good(call.token)
               /\ Good(call.token)
                    => call.result = [ user_id |-> call.token.user_id,
                                       exp |-> clock.sec + 24 * 3600,
                                       signed |-> TRUE ]

\* a token has been refreshed in the last second before it expires
C15_Witness ==
    /\ call.fn = "refresh_token"
    /\ call.result # NoToken
    /\ call.token.exp = clock.sec + 1

\* ==================================================================== C16
\* C16: every logout leaves the session without a token in its URL and
\* without the keys authenticated, user, token, current_conversation and
\* messages in its state, and check_auth fails right after it; and a session
\* in which check_auth fails gets to a state in which it succeeds only by a
\* login or a registration of that session that succeeds.
C16_LogoutEndsSession ==
    [][ \A s \in Primary :
          /\ Logout(s)
                => /\ qp'[s] = NoToken
                   /\ ~ss'[s].authenticated
                   /\ ss'[s].user = NoId
                   /\ ss'[s].token = NoToken
                   /\ ss'[s].current_conversation = NoId
                   /\ ss'[s].messages = <<>>
                   /\ ~check_auth(users', ss'[s], qp'[s], clock').ok
          /\ ( /\ ~check_auth(users, ss[s], qp[s], clock).ok
               /\ check_auth(users', ss'[s], qp'[s], clock').ok )
                => /\ ss'[s].authenticated
                   /\ ss'[s].token = qp'[s]
                   /\ \/ \E form \in LoginForms :
                            /\ Login(s, form)
                            /\ authenticate(users, form.username, form.password, clock).success
                      \/ \E form \in RegForms :
                            /\ Register(s, form)
                            /\ register(users, form.username, form.email, form.password,
                                        clock).success ]_vars

\* a session that had a conversation with messages has logged out, has been
\* shown the auth page, and a day later it is still logged out
C16_Witness ==
    \E s \in Primary :
        /\ page[s] = "auth"
        /\ qp[s] = NoToken
        /\ ss[s].token = NoToken
        /\ messages # <<>>
        /\ clock.sec > 0

\* ==================================================================== C17
\* C17: every login and every registration that succeeds leaves its token
\* both in the session state and in the query parameters; and every run of
\* main that starts with an empty session state and, in the query
\* parameters, a token of a stored user that is signed and has not expired
\* renders the application (check_auth returned True) with authenticated
\* set and user and token restored from that token.
C17_LoginSurvivesRefresh ==
    [][ \A s \in Primary :
          /\ ( \/ \E form \in LoginForms :
                     /\ Login(s, form)
                     /\ authenticate(users, form.username, form.password, clock).success
               \/ \E form \in RegForms :
                     /\ Register(s, form)
                     /\ register(users, form.username, form.email, form.password,
                                 clock).success )
                => /\ ss'[s].token # NoToken
                   /\ ss'[s].token.signed
                   /\ ss'[s].token.user_id = ss'[s].user
                   /\ ss'[s].authenticated
                   /\ qp'[s] = ss'[s].token
          /\ ( /\ pc[s] = "run" /\ pc'[s] # "run"
               /\ ss[s] = EmptySession
               /\ qp[s].signed
               /\ clock.sec < qp[s].exp
               /\ qp[s].user_id \in DOMAIN users )
                => /\ page'[s] = "app"
                   /\ ss'[s].authenticated
                   /\ ss'[s].user = qp[s].user_id
                   /\ ss'[s].token = qp[s]
                   /\ qp'[s] = qp[s] ]_vars

\* the page has been reloaded in a session that has sent a prompt: the
\* session state is empty, the URL still carries the unexpired token of the
\* login, and main is about to run
C17_Witness ==
    \E s \in Primary :
        /\ pc[s] = "run"
        /\ ss[s] = EmptySession
        /\ qp[s] # NoToken /\ qp[s].signed /\ clock.sec < qp[s].exp
        /\ qp[s].user_id \in DOMAIN users
        /\ messages # <<>>

\* ------------------------------------- direct calls of the file handler
CallValidateFile(filename, file_size) ==
    /\ call' = [ fn |-> "validate_file", filename |-> filename, file_size |-> file_size,
                 result |-> validate_file(filename, file_size) ]
    /\ UNCHANGED <<dbvars, clock, ss, qp, pc, page, lv>>

CallProcessFile(file) ==
    /\ call' = [ fn |-> "process_file", filename |-> file.name,
                 file_size |-> b64decode(file.data).size,
                 raised |-> process_file_raises(file.name, b64decode(file.data)) ]
    /\ UNCHANGED <<dbvars, clock, ss, qp, pc, page, lv>>

\* one browser session that attaches files, and the file handler called
\* directly
NextUpload ==
    \/ \E s \in Primary : RunAuthPage(s)
    \/ \E s \in Primary, form \in RegForms : Register(s, form)
    \/ \E s \in Primary : RunApp(s)
    \/ \E s \in Primary, file \in UploadFiles : Upload(s, file)
    \/ \E s \in Primary : ClearAttachments(s)
    \/ \E name \in UploadNames, size \in UploadSizes : CallValidateFile(name, size)
    \/ \E file \in UploadFiles : CallProcessFile(file)

SpecUpload == Init /\ [][NextUpload]_vars

\* ==================================================================== C18
\* the files the claim says are accepted: the lower-cased extension is one
\* of the allowed ones and the size is at most 25 * 1024 * 1024 bytes
C18_Accepted(filename, file_size) ==
    /\ LowerOf(Suffix(filename)) \in
          { ".pdf", ".doc", ".docx", ".txt", ".md", ".csv",
            ".png", ".jpg", ".jpeg", ".gif", ".webp" }
    /\ file_size <= 25 * 1024 * 1024

\* the names and sizes handed to the file handler that the claim says are
\* accepted
C18_AcceptedInputs ==
    { in \in UploadNames \X UploadSizes : C18_Accepted(in[1], in[2]) }

\* C18: validate_file accepts a file exactly when its lower-cased extension
\* is allowed and its size is at most 25 * 1024 * 1024 bytes; process_file
\* raises FileProcessingError exactly for the files validate_file rejects;
\* and nothing is added to the pending attachments then: in every step the
\* pending attachments stay as they are, are cleared, or grow by one file,
\* and that file is an accepted one.
C18_FileValidation ==
    /\ [] ( /\ call.fn = "validate_file"
                => (call.result.is_valid
                      <=> <<call.filename, call.file_size>> \in C18_AcceptedInputs)
            /\ call.fn = "process_file"
                => (call.raised
                      <=> <<call.filename, call.file_size>> \notin C18_AcceptedInputs) )
    /\ [][ \A s \in Primary :
             LET before == ss[s].pending_files
                 after == ss'[s].pending_files
             IN \/ after = before
                \/ after = <<>>
                \/ /\ Len(after) = Len(before) + 1
                   /\ SubSeq(after, 1, Len(before)) = before
                   /\ <<after[Len(after)].name, after[Len(after)].data.b64.size>>
                         \in C18_AcceptedInputs ]_vars

\* a file one byte over the limit has made process_file raise while a file
\* of exactly the limit, with its extension in capitals, is pending
C18_Witness ==
    /\ call.fn = "process_file"
    /\ call.raised
    /\ call.file_size = 25 * 1024 * 1024 + 1
    /\ call.filename = "a.PNG"
    /\ \E s \in Primary :
          /\ Len(ss[s].pending_files) = 1
          /\ ss[s].pending_files[1].name = "a.PNG"
          /\ ss[s].pending_files[1].data.b64.size = 25 * 1024 * 1024

\* -------------------------------------- direct calls of stream_message
\* the events a response stream is made of
StreamEvents ==
    { Delta("a"), Delta("b"), ToolUseDelta, Metadata(2, 1), Metadata(5, 3), MessageStop }

RECURSIVE SeqsUpTo(_, _)
SeqsUpTo(S, n) ==
    IF n = 0 THEN { <<>> }
    ELSE SeqsUpTo(S, n - 1)
            \cup { Append(seq, x) : seq \in { q \in SeqsUpTo(S, n - 1) : Len(q) = n - 1 }, x \in S }

\* the response streams handed to stream_message
ResponseStreams == SeqsUpTo(StreamEvents, MaxEvents)

\* stream_message is iterated to its end, as the loop of show_chat_page does:
\* the chunks yielded and what the loop has accumulated
CallStreamMessage(events) ==
    /\ call' = [ fn |-> "stream_message", events |-> events,
                 chunks |-> stream_message(events),
                 full_response |-> StreamOutcome(events, NoInt, NoStr).full_response ]
    /\ UNCHANGED <<dbvars, clock, ss, qp, pc, page, lv>>

NextStream == \E events \in ResponseStreams : CallStreamMessage(events)

SpecStream == Init /\ [][NextStream]_vars

\* ==================================================================== C19
C19_IsTextDelta(event) == event.kind = "contentBlockDelta" /\ event.has_text

RECURSIVE C19_Concat(_)
C19_Concat(events) ==
    IF events = <<>> THEN "" ELSE Head(events).text \o C19_Concat(Tail(events))

\* C19: for a response stream that is read to its end, stream_message yields
\* one non-final chunk for each contentBlockDelta event that carries text,
\* with that text, in the order of the events, and after them exactly one
\* final chunk (is_final true, empty text), which is the last chunk and
\* carries the token counts of the last metadata event of the stream, or 0
\* and 0 if there was none; the text the caller has accumulated is the
\* concatenation of the delta texts.
C19_StreamChunks ==
    call.fn = "stream_message"
        => LET events == call.events
               chunks == call.chunks
               deltas == SelectSeq(events, C19_IsTextDelta)
               n == Len(chunks)
               meta == { i \in 1..Len(events) : events[i].kind = "metadata" }
           IN /\ n = Len(deltas) + 1
              /\ \A i \in 1..(n - 1) :
                    /\ ~chunks[i].is_final
                    /\ chunks[i].text = deltas[i].text
              /\ chunks[n].is_final
              /\ chunks[n].text = ""
              /\ IF meta = {}
                 THEN chunks[n].input_tokens = 0 /\ chunks[n].output_tokens = 0
                 ELSE LET last == CHOOSE i \in meta : \A j \in meta : j <= i
                      IN /\ chunks[n].input_tokens = events[last].inputTokens
                         /\ chunks[n].output_tokens = events[last].outputTokens
              /\ call.full_response = C19_Concat(deltas)

\* a stream with a text delta between two metadata events has been read to
\* the end
C19_Witness ==
    /\ call.fn = "stream_message"
    /\ call.events = << Metadata(2, 1), Delta("b"), Metadata(5, 3) >>
    /\ Len(call.chunks) = 2
    /\ call.chunks[2].input_tokens = 5
    /\ call.full_response = "b"

\* ------------------------------------ direct calls of the messages table
\* the roles and contents handed to add_message: a string; lists of text
\* blocks with and without a "type" key, one with an item that is not a
\* dict; and the list build_api_message makes of a prompt and an attached
\* image
StoredMessages ==
    { [ role |-> "user", content |-> PyStr("hello") ],
      [ role |-> "assistant", content |-> PyList(<< [type |-> "text", text |-> "hi"] >>) ],
      [ role |-> "user",
        content |-> PyList(<< [text |-> "a"], [py_value |-> "raw"],
                              [type |-> "text", text |-> "b"] >>) ],
      [ role |-> "user",
        content |->
            PyList(build_api_message("hi",
                      << process_file("a.PNG",
                            b64decode(BridgeFile("a.PNG", MAX_FILE_SIZE_MB * 1024 * 1024).data))
                      >>).content) ] }

\* add_message(conversation_id, role, content): the Message returned, or the
\* TypeError of json.dumps
CallAddMessage(conversation_id, role, content) ==
    /\ nextMsg < MaxRows
    /\ IF add_message_raises(content)
       THEN /\ call' = [ fn |-> "add_message", role |-> role, content |-> content,
                         raised |-> TRUE, id |-> NoId ]
            /\ UNCHANGED <<messages, nextMsg, clock>>
       ELSE /\ nextMsg' = nextMsg + 1
            /\ \E now \in Readings :
                  /\ clock' = now
                  /\ messages' = add_message(messages, nextMsg + 1, conversation_id, role,
                                             content, now, 0, 0)
            /\ call' = [ fn |-> "add_message", role |-> role, content |-> content,
                         raised |-> FALSE, id |-> nextMsg + 1 ]
    /\ UNCHANGED <<users, conversations, nextConv, ss, qp, pc, page, lv>>

\* get_messages_for_api(conversation_id)
CallGetMessagesForApi(conversation_id) ==
    /\ \E rows \in get_conversation_messages(messages, conversation_id) :
          call' = [ fn |-> "get_messages_for_api", rows |-> rows,
                    result |-> get_messages_for_api(messages, rows) ]
    /\ UNCHANGED <<dbvars, clock, ss, qp, pc, page, lv>>

\* the messages table, called directly for conversation 1
NextStore ==
    \/ \E msg \in StoredMessages : CallAddMessage(1, msg.role, msg.content)
    \/ CallGetMessagesForApi(1)

SpecStore == Init /\ [][NextStore]_vars

\* ==================================================================== C20
\* what the claim says is stored: [{"text": s}] for a string s; for a list,
\* the list with the "type" key removed from every dict block
C20_Normalized(content) ==
    IF content.py = "str"
    THEN << [text |-> content.value] >>
    ELSE [ i \in 1..Len(content.value) |->
             [ k \in DOMAIN content.value[i] \ {"type"} |-> content.value[i][k] ] ]

\* C20: every call of add_message with a string or a list of blocks stores
\* one new row whose content is the normalized block list; and every result
\* of get_messages_for_api has, for each row read and in the order read, the
\* role of the row and exactly the stored block list, no block of which has
\* a "type" key.
C20_RoundTrip ==
    [][ /\ call'.fn = "add_message"
            => /\ call'.id \in DOMAIN messages' \ DOMAIN messages
               /\ messages'[call'.id].role = call'.role
               /\ messages'[call'.id].content = C20_Normalized(call'.content)
        /\ call'.fn = "get_messages_for_api"
            => /\ Len(call'.result) = Len(call'.rows)
               /\ \A i \in 1..Len(call'.rows) :
                     /\ call'.result[i].role = messages[call'.rows[i]].role
                     /\ call'.result[i].content = messages[call'.rows[i]].content
                     /\ \A j \in 1..Len(call'.result[i].content) :
                           "type" \notin DOMAIN call'.result[i].content[j] ]_vars
====
